---- MODULE Spec2Model ----
(***************************************************************************)
(* A model of revtc's EVTC decoder (src/src/evtc.rs): read_encounter and   *)
(* the stages it drives (read_header, read_agents, read_skills, read_log,  *)
(* find_pov), Agent::try_from and Encounter::shrink.                       *)
(*                                                                         *)
(* The byte source is a finite sequence of bytes (naturals below 256) with *)
(* a cursor.  Multi-byte integers that the code only compares (addresses,  *)
(* the elite/sentinel word) are kept as their bytes; the two table counts  *)
(* are decoded little-endian, as read_u32::<LittleEndian> does.            *)
(***************************************************************************)
EXTENDS Naturals, Sequences, FiniteSets

VARIABLES
    stream,       \* the bytes the reader yields (rdr), fixed for one call
    pos,          \* number of bytes of stream consumed so far
    pc,           \* the stage read_encounter is about to run
    reads,        \* the stages that have read from the source, in order
    header,       \* local `header` of read_encounter
    agent_count,  \* local `agent_count`
    agent_i,      \* loop counter of read_agents (records read so far)
    agents,       \* local `agents` (Vec<Agent>, as a sequence)
    skill_count,  \* local `skill_count`
    skills,       \* local `skills` (Vec<EvtcSkill>: items and capacity)
    combat_log,   \* local `combat_log` (Vec<CbtEvent>: items and capacity)
    result,       \* what read_encounter returned: Pending, Ok or Err(kind)
    encounter,    \* the Encounter the caller holds after Ok, else NoEncounter
    shrunk,       \* [called, before]: whether shrink ran, and the Encounter before its last call
    name_in,      \* name-splitting specification: the raw agent record given to try_from
    name_out,     \* name-splitting specification: what try_from returned
    original,     \* round-trip specification: the value whose encoding is `stream`
    other         \* two-call specification: the frame of the call that is not running

vars == <<stream, pos, pc, reads, header, agent_count, agent_i, agents,
          skill_count, skills, combat_log, result, encounter, shrunk,
          name_in, name_out, original, other>>

decodeVars == <<stream, pos, pc, reads, header, agent_count, agent_i, agents,
                skill_count, skills, combat_log, result, encounter, shrunk>>

-----------------------------------------------------------------------------
(* Bounds of the model. *)

MaxAgents == 2
MaxSkills == 1
MaxEvents == 2
MaxExtra  == 1
NameLen   == 4

-----------------------------------------------------------------------------
(* Byte-sequence helpers. *)

Rep(b, n) == [k \in 1..n |-> b]

Take(s, n) == SubSeq(s, 1, IF n < Len(s) THEN n ELSE Len(s))

Slice(s, off, n) == SubSeq(s, off + 1, off + n)

RECURSIVE Concat(_)
Concat(ss) == IF ss = <<>> THEN <<>> ELSE Head(ss) \o Concat(Tail(ss))

RECURSIVE SeqsUpTo(_, _)
SeqsUpTo(S, n) ==
    IF n = 0 THEN {<<>>}
    ELSE LET shorter == SeqsUpTo(S, n - 1)
         IN  shorter \cup {Append(s, x) : s \in {t \in shorter : Len(t) = n - 1}, x \in S}

SeqsOfLen(S, n) == {s \in SeqsUpTo(S, n) : Len(s) = n}

-----------------------------------------------------------------------------
(* Record layouts: RawHeader (packed), EvtcAgent (repr(C)), EvtcSkill      *)
(* (packed), CbtEvent (packed).  Sizes are mem::size_of of each struct.    *)

AlignUp(n, a) == ((n + a - 1) \div a) * a

U8  == 1
U16 == 2
U32 == 4
U64 == 8
NAME_BYTES == 64

HEADER_SIZE == 4 + 8 + U8 + U16 + U8

AGENT_ADDR_OFF  == 0
AGENT_PROF_OFF  == AGENT_ADDR_OFF + U64
AGENT_ELITE_OFF == AGENT_PROF_OFF + U32
AGENT_STATS_OFF == AGENT_ELITE_OFF + U32
AGENT_NAME_OFF  == AGENT_STATS_OFF + 6 * U16
(* The record's size were the struct packed like the other three. *)
AGENT_SIZE_PACKED == AGENT_NAME_OFF + NAME_BYTES

AGENT_SIZE      == AlignUp(AGENT_NAME_OFF + NAME_BYTES, U64)

SKILL_SIZE == U32 + NAME_BYTES

EVENT_SRC_AGENT_OFF     == U64
EVENT_IS_STATECHANGE_OFF == 3 * U64 + 4 * U32 + 4 * U16 + 8 * U8
EVENT_SIZE               == 3 * U64 + 4 * U32 + 4 * U16 + 16 * U8

EVTC_MAGIC == <<69, 86, 84, 67>>
SENTINEL   == <<255, 255, 255, 255>>
PointOfView == 13

-----------------------------------------------------------------------------
(* std::str::from_utf8 / String::from_utf8: whether a byte sequence is     *)
(* well-formed UTF-8 (no overlong forms, no surrogates, at most U+10FFFF). *)

IsCont(s, k) == k <= Len(s) /\ s[k] >= 128 /\ s[k] <= 191

InRange(s, k, lo, hi) == k <= Len(s) /\ s[k] >= lo /\ s[k] <= hi

RECURSIVE Utf8From(_, _)
Utf8From(s, k) ==
    IF k > Len(s) THEN TRUE
    ELSE LET b == s[k] IN
         IF b < 128 THEN Utf8From(s, k + 1)
         ELSE IF b >= 194 /\ b <= 223
              THEN IsCont(s, k + 1) /\ Utf8From(s, k + 2)
         ELSE IF b = 224
              THEN InRange(s, k + 1, 160, 191) /\ IsCont(s, k + 2) /\ Utf8From(s, k + 3)
         ELSE IF (b >= 225 /\ b <= 236) \/ b = 238 \/ b = 239
              THEN IsCont(s, k + 1) /\ IsCont(s, k + 2) /\ Utf8From(s, k + 3)
         ELSE IF b = 237
              THEN InRange(s, k + 1, 128, 159) /\ IsCont(s, k + 2) /\ Utf8From(s, k + 3)
         ELSE IF b = 240
              THEN InRange(s, k + 1, 144, 191) /\ IsCont(s, k + 2) /\ IsCont(s, k + 3)
                   /\ Utf8From(s, k + 4)
         ELSE IF b >= 241 /\ b <= 243
              THEN IsCont(s, k + 1) /\ IsCont(s, k + 2) /\ IsCont(s, k + 3)
                   /\ Utf8From(s, k + 4)
         ELSE IF b = 244
              THEN InRange(s, k + 1, 128, 143) /\ IsCont(s, k + 2) /\ IsCont(s, k + 3)
                   /\ Utf8From(s, k + 4)
         ELSE FALSE

ValidUtf8(s) == Utf8From(s, 1)

-----------------------------------------------------------------------------
(* Agent::try_from (evtc.rs 78-104).                                       *)

(* it.by_ref().take_while(|&&c| c != 0): the iterator yields bytes from    *)
(* cursor k until it has yielded a zero byte, which is consumed and not    *)
(* kept, or is exhausted; `next` is the cursor afterwards.                 *)
RECURSIVE ScanNonZero(_, _)
ScanNonZero(s, k) ==
    IF k > Len(s) THEN k
    ELSE IF s[k] = 0 THEN k
    ELSE ScanNonZero(s, k + 1)

(* A take_while that leaves the terminating zero byte in the iterator. *)
TakeWhileLeaveNull(s, k) ==
    LET stop == ScanNonZero(s, k)
    IN  [seg |-> SubSeq(s, k, stop - 1), next |-> stop]

TakeWhileNonZero(s, k) ==
    LET stop == ScanNonZero(s, k)
    IN  [seg  |-> SubSeq(s, k, stop - 1),
         next |-> IF stop > Len(s) THEN stop ELSE stop + 1]

(* str::trim_start_matches(c): every leading occurrence of c is removed. *)
RECURSIVE TrimStartMatches(_, _)
TrimStartMatches(s, c) ==
    IF s # <<>> /\ Head(s) = c THEN TrimStartMatches(Tail(s), c) ELSE s

COLON == 58

(* Profession::from_evtc / EliteSpec::from_evtc on the native (little-     *)
(* endian) u32 held in four bytes: a known discriminant, else Unknown = 0. *)
ProfessionIds == 1..9

EliteSpecIds == {27, 18, 43, 5, 7, 48, 40, 34, 52, 62, 61, 57, 55, 58, 56, 59,
                 60, 63, 65, 68, 72, 71, 67, 66, 64, 69, 70}

FromU32(bs, ids) ==
    IF bs[2] = 0 /\ bs[3] = 0 /\ bs[4] = 0 /\ bs[1] \in ids THEN bs[1] ELSE 0

ProfessionFromEvtc(bs) == FromU32(bs, ProfessionIds)

EliteSpecFromEvtc(bs) == FromU32(bs, EliteSpecIds)

(* Fields of a raw EvtcAgent, read from its AGENT_SIZE bytes. *)
RawAddr(raw)    == Slice(raw, AGENT_ADDR_OFF, U64)
RawProf(raw)    == Slice(raw, AGENT_PROF_OFF, U32)
RawIsElite(raw) == Slice(raw, AGENT_ELITE_OFF, U32)
RawName(raw)    == Slice(raw, AGENT_NAME_OFF, NAME_BYTES)

(* A sentinel test against 0x0000FFFF instead of 0xFFFFFFFF. *)
IsPlayerWrongSentinel(raw) == RawIsElite(raw) # <<255, 255, 0, 0>>

IsPlayer(raw) == RawIsElite(raw) # SENTINEL

TryFromErr(why) == [ok |-> FALSE, err |-> why]

(* A conversion that decodes the segments lossily: text that is not UTF-8 *)
(* no longer fails it.                                                   *)
TryFromLossy(raw) ==
    IF RawIsElite(raw) # SENTINEL
    THEN LET name == RawName(raw)
             c == TakeWhileNonZero(name, 1)
             a == TakeWhileNonZero(name, c.next)
             g == TakeWhileNonZero(name, a.next)
         IN  [ok |-> TRUE,
              agent |-> [addr           |-> RawAddr(raw),
                         prof           |-> ProfessionFromEvtc(RawProf(raw)),
                         elite_spec     |-> EliteSpecFromEvtc(RawIsElite(raw)),
                         character_name |-> c.seg,
                         account_name   |-> TrimStartMatches(a.seg, COLON),
                         subgroup       |-> g.seg]]
    ELSE TryFromErr("NotAPlayerAgent")

(* The three segments try_from takes from the name buffer, in order; each  *)
(* `?` returns the FromUtf8Error of the first segment that is not UTF-8.   *)
TryFrom(raw) ==
    IF IsPlayer(raw)
    THEN LET name == RawName(raw)
             c == TakeWhileNonZero(name, 1)
             a == TakeWhileNonZero(name, c.next)
             g == TakeWhileNonZero(name, a.next)
         IN  IF ~ValidUtf8(c.seg) THEN TryFromErr("InvalidText")
             ELSE IF ~ValidUtf8(a.seg) THEN TryFromErr("InvalidText")
             ELSE IF ~ValidUtf8(g.seg) THEN TryFromErr("InvalidText")
             ELSE [ok |-> TRUE,
                   agent |-> [addr           |-> RawAddr(raw),
                              prof           |-> ProfessionFromEvtc(RawProf(raw)),
                              elite_spec     |-> EliteSpecFromEvtc(RawIsElite(raw)),
                              character_name |-> c.seg,
                              account_name   |-> TrimStartMatches(a.seg, COLON),
                              subgroup       |-> g.seg]]
    ELSE TryFromErr("NotAPlayerAgent")


-----------------------------------------------------------------------------
(* read_header (evtc.rs 49-66) and the primitive reads.                    *)

(* Read::read_exact(n) at cursor p: enough bytes remain. *)
CanRead(p, n) == p + n <= Len(stream)

(* A count decoded big-endian. *)
DecodeU32BE(bs) == bs[4] + 256 * bs[3] + 65536 * bs[2] + 16777216 * bs[1]

(* byteorder's read_u32::<LittleEndian> on four bytes. *)
DecodeU32LE(bs) == bs[1] + 256 * bs[2] + 65536 * bs[3] + 16777216 * bs[4]

DecodeU16(bs) == bs[1] + 256 * bs[2]

(* str::from_utf8(version).unwrap_or(""): the eight bytes, or nothing. *)
DecodeVersion(bs) == IF ValidUtf8(bs) THEN bs ELSE <<>>

(* A magic check that compares one byte too few. *)
MagicOkThreeBytes(raw) == Slice(raw, 0, 3) = Take(EVTC_MAGIC, 3)

MagicOk(raw) == Slice(raw, 0, 4) = EVTC_MAGIC

ParseHeader(raw) ==
    [version  |-> DecodeVersion(Slice(raw, 4, 8)),
     revision |-> raw[13],
     boss_id  |-> DecodeU16(Slice(raw, 13, U16))]

(* find_pov (evtc.rs 227-234). *)
EvtIsStatechange(evt) == evt[EVENT_IS_STATECHANGE_OFF + 1]

EvtSrcAgent(evt) == Slice(evt, EVENT_SRC_AGENT_OFF, U64)

None == [some |-> FALSE]

Some(x) == [some |-> TRUE, val |-> x]

(* agents.iter().find(|a| a.addr == addr).cloned() *)
RECURSIVE FindAgent(_, _)
FindAgent(ags, addr) ==
    IF ags = <<>> THEN None
    ELSE IF Head(ags).addr = addr THEN Some(Head(ags))
    ELSE FindAgent(Tail(ags), addr)

(* A scan that goes on to later point-of-view events when the first one   *)
(* names no decoded agent.                                                 *)
RECURSIVE find_pov_any(_, _)
find_pov_any(evts, ags) ==
    IF evts = <<>> THEN None
    ELSE IF EvtIsStatechange(Head(evts)) = PointOfView
            /\ FindAgent(ags, EvtSrcAgent(Head(evts))) # None
         THEN FindAgent(ags, EvtSrcAgent(Head(evts)))
    ELSE find_pov_any(Tail(evts), ags)

RECURSIVE find_pov(_, _)
find_pov(evts, ags) ==
    IF evts = <<>> THEN None
    ELSE IF EvtIsStatechange(Head(evts)) = PointOfView
         THEN FindAgent(ags, EvtSrcAgent(Head(evts)))
    ELSE find_pov(Tail(evts), ags)

(* A Vec reinterpreted from a byte buffer of n bytes after shrink_to_fit:  *)
(* n / width items, and a capacity of as many items.                       *)
RECURSIVE Chunks(_, _)
Chunks(bs, w) ==
    IF Len(bs) < w THEN <<>> ELSE <<SubSeq(bs, 1, w)>> \o Chunks(SubSeq(bs, w + 1, Len(bs)), w)

VecFromBytes(bs, w) == [items |-> Chunks(bs, w), cap |-> Len(bs) \div w]

EmptyVec == [items |-> <<>>, cap |-> 0]

(* Vec::clear: the items are dropped, the allocation is kept. *)
VecClear(v) == [items |-> <<>>, cap |-> v.cap]

-----------------------------------------------------------------------------
(* The inputs: byte streams in the persisted layout, cut or extended.      *)

EncodeU32LE(n) == <<n % 256, (n \div 256) % 256, (n \div 65536) % 256, (n \div 16777216) % 256>>

Addr(k) == <<k>> \o Rep(0, U64 - 1)

Pad(bs, n) == bs \o Rep(0, n - Len(bs))

\* "Foo\0:Bar\0Party1\0" and zero padding
NameFoo == Pad(<<70, 111, 111, 0, 58, 66, 97, 114, 0, 80, 97, 114, 116, 121, 49, 0>>, NAME_BYTES)
\* "Al\0::Bo\0" and zero padding
NameAl  == Pad(<<65, 108, 0, 58, 58, 66, 111, 0>>, NAME_BYTES)
\* a character name that is not UTF-8
NameBadChar == Pad(<<255, 0, 58, 66, 0, 49, 0>>, NAME_BYTES)
\* a subgroup that is not UTF-8 (a lone continuation byte)
NameBadSub == Pad(<<70, 0, 58, 66, 0, 128, 0>>, NAME_BYTES)

RawAgent(addr, prof, elite, name) ==
    addr \o EncodeU32LE(prof) \o elite \o Rep(0, 6 * U16) \o name
         \o Rep(0, AGENT_SIZE - (AGENT_NAME_OFF + NAME_BYTES))

Dragonhunter == EncodeU32LE(27)

AgentPool ==
    { RawAgent(Addr(1), 1, Dragonhunter, NameFoo),
      RawAgent(Addr(2), 2, EncodeU32LE(0), NameAl),
      RawAgent(Addr(1), 3, Dragonhunter, NameAl),
      RawAgent(Addr(2), 4, SENTINEL, NameFoo),
      RawAgent(Addr(1), 4, SENTINEL, NameBadChar),
      RawAgent(Addr(1), 5, Dragonhunter, NameBadChar),
      RawAgent(Addr(2), 6, Dragonhunter, NameBadSub) }

RawEvent(statechange, src) ==
    Rep(0, U64) \o src \o Rep(0, EVENT_IS_STATECHANGE_OFF - 2 * U64)
       \o <<statechange>> \o Rep(0, EVENT_SIZE - EVENT_IS_STATECHANGE_OFF - 1)

EventPool ==
    { RawEvent(0, Addr(1)), RawEvent(PointOfView, Addr(1)),
      RawEvent(PointOfView, Addr(2)), RawEvent(PointOfView, Addr(3)) }

RawSkill(id) == EncodeU32LE(id) \o Rep(0, NAME_BYTES)

SkillTable(n) == Concat([k \in 1..n |-> RawSkill(k)])

VersionText == <<69, 86, 84, 67, 50, 48, 50, 52>>

RawHeaderBytes(magic, version) == magic \o version \o <<1>> \o <<7, 1>> \o <<0>>

Magics == {EVTC_MAGIC, <<88, 88, 88, 88>>, <<69, 86, 84, 88>>}

Encode(magic, ags, nskills, evts) ==
    RawHeaderBytes(magic, VersionText)
       \o EncodeU32LE(Len(ags)) \o Concat(ags)
       \o EncodeU32LE(nskills) \o SkillTable(nskills)
       \o Concat(evts)

(* The ends of the regions of a stream with na agents, ns skills, ne events. *)
Boundaries(na, ns, ne) ==
    LET a0 == HEADER_SIZE + U32
        s0 == a0 + na * AGENT_SIZE + U32
        e0 == s0 + ns * SKILL_SIZE
    IN  {0, 4, HEADER_SIZE, a0, s0 - U32, s0, e0, e0 + ne * EVENT_SIZE}
           \cup {a0 + k * AGENT_SIZE : k \in 0..na}
           \cup {e0 + k * EVENT_SIZE : k \in 0..ne}

(* Whole streams.  Every table of raw records within the bounds, players,  *)
(* sentinel records and records with bad text alike, before a few event    *)
(* tails; and every event sequence within the bounds after every table of  *)
(* well-formed player records.                                             *)
PlayerPool ==
    { RawAgent(Addr(1), 1, Dragonhunter, NameFoo),
      RawAgent(Addr(2), 2, EncodeU32LE(0), NameAl),
      RawAgent(Addr(1), 3, Dragonhunter, NameAl) }

TailSamples ==
    { <<>>, <<RawEvent(PointOfView, Addr(1))>>,
      <<RawEvent(0, Addr(1)), RawEvent(PointOfView, Addr(2))>> }

TableStreams ==
    { Encode(EVTC_MAGIC, ags, ns, evts) :
        ags \in SeqsUpTo(AgentPool, MaxAgents), ns \in 0..MaxSkills,
        evts \in TailSamples }

EventStreams ==
    { Encode(EVTC_MAGIC, ags, 0, evts) :
        ags \in SeqsUpTo(PlayerPool, MaxAgents),
        evts \in SeqsUpTo(EventPool, MaxEvents) }

(* Streams whose eight version bytes vary: plain text, text padded with    *)
(* zero bytes, a two-byte character, a stray 0xFF, a character cut short.  *)
Versions ==
    { VersionText,
      <<50, 48, 50, 52, 0, 0, 0, 0>>,
      <<69, 86, 84, 67, 195, 169, 50, 52>>,
      <<69, 86, 84, 67, 50, 48, 255, 52>>,
      <<69, 86, 84, 67, 50, 48, 50, 195>>,
      <<255, 86, 84, 67, 50, 48, 50, 52>> }

VersionStreams ==
    { RawHeaderBytes(EVTC_MAGIC, v) \o EncodeU32LE(Len(ags)) \o Concat(ags)
         \o EncodeU32LE(0) \o Concat(evts) :
        v \in Versions, ags \in SeqsUpTo(PlayerPool, 1), evts \in TailSamples }

WholeStreams == TableStreams \cup EventStreams \cup VersionStreams

(* Cut and extended streams, of every magic: a stream cut at, just before  *)
(* or just after a region's end, or followed by up to MaxExtra more bytes. *)
SampleAgents == {<<>>, <<RawAgent(Addr(1), 1, Dragonhunter, NameFoo)>>,
                 <<RawAgent(Addr(2), 4, SENTINEL, NameFoo)>>,
                 <<RawAgent(Addr(2), 4, SENTINEL, NameFoo),
                   RawAgent(Addr(1), 1, Dragonhunter, NameFoo)>>}

SampleEvents == {<<>>, <<RawEvent(PointOfView, Addr(1))>>}

CutStreams ==
    UNION { LET full == Encode(m, ags, ns, evts) \o Rep(9, MaxExtra)
                cuts == { n \in 0..Len(full) :
                            \E b \in Boundaries(Len(ags), ns, Len(evts)) :
                               n + 1 = b \/ n = b \/ n = b + 1 \/ n >= Len(full) - MaxExtra }
            IN  { Take(full, n) : n \in cuts }
          : m \in Magics, ags \in SampleAgents, ns \in {0, 1}, evts \in SampleEvents }

Streams == WholeStreams \cup CutStreams

-----------------------------------------------------------------------------
(* read_encounter (evtc.rs 196-225), one action per stage.                 *)

Pending == [tag |-> "Pending"]

Ok == [tag |-> "Ok"]

Err(kind) == [tag |-> "Err", kind |-> kind]

NoEncounter == [present |-> FALSE]

NoHeader == [version |-> <<>>, revision |-> 0, boss_id |-> 0]

NoName == <<>>

NoOut == [ok |-> FALSE, err |-> "NotCalled"]

NoOriginal == [present |-> FALSE]

NoOther == [present |-> FALSE]

Init ==
    /\ stream \in Streams
    /\ pos = 0
    /\ pc = "header"
    /\ reads = <<>>
    /\ header = NoHeader
    /\ agent_count = 0
    /\ agent_i = 0
    /\ agents = <<>>
    /\ skill_count = 0
    /\ skills = EmptyVec
    /\ combat_log = EmptyVec
    /\ result = Pending
    /\ encounter = NoEncounter
    /\ shrunk = [called |-> FALSE]
    /\ name_in = NoName
    /\ name_out = NoOut
    /\ original = NoOriginal
    /\ other = NoOther

(* `?` on an Err: read_encounter returns the error; its locals are dropped *)
(* and no Encounter is built.                                              *)
Fail(kind) ==
    /\ pc' = "failed"
    /\ result' = Err(kind)
    /\ encounter' = NoEncounter
    /\ header' = NoHeader
    /\ agents' = <<>>
    /\ skills' = EmptyVec
    /\ combat_log' = EmptyVec
    /\ UNCHANGED <<agent_count, agent_i, skill_count, shrunk>>

(* A read_exact that meets the end of the stream: the default read_exact   *)
(* has consumed what was left and returns ErrorKind::UnexpectedEof.        *)
FailTruncated ==
    /\ pos' = Len(stream)
    /\ Fail("TruncatedInput")

(* read_header: read size_of::<RawHeader>() bytes, then compare the magic. *)
HeaderOutcome(p) ==
    IF ~CanRead(p, HEADER_SIZE) THEN Err("TruncatedInput")
    ELSE IF ~MagicOk(Slice(stream, p, HEADER_SIZE)) THEN Err("BadMagic")
    ELSE Ok

ReadHeader ==
    /\ pc = "header"
    /\ reads' = Append(reads, "header")
    /\ LET out == HeaderOutcome(pos) IN
       IF out = Err("TruncatedInput") THEN FailTruncated
       ELSE IF out # Ok
            THEN /\ pos' = pos + HEADER_SIZE
                 /\ Fail(out.kind)
       ELSE /\ pos' = pos + HEADER_SIZE
            /\ header' = ParseHeader(Slice(stream, pos, HEADER_SIZE))
            /\ pc' = "agent_count"
            /\ UNCHANGED <<agent_count, agent_i, agents, skill_count, skills,
                           combat_log, result, encounter, shrunk>>
    /\ UNCHANGED <<stream, name_in, name_out, original, other>>

(* An agent count whose read error is swallowed: a missing count is taken  *)
(* as 0 and the decode goes on.                                           *)
ReadAgentCountOrZero ==
    /\ pc = "agent_count"
    /\ reads' = Append(reads, "agent_count")
    /\ pos' = IF CanRead(pos, U32) THEN pos + U32 ELSE Len(stream)
    /\ agent_count' = IF CanRead(pos, U32) THEN DecodeU32LE(Slice(stream, pos, U32)) ELSE 0
    /\ agent_i' = 0
    /\ pc' = IF agent_count' = 0 THEN "skill_count" ELSE "agents"
    /\ UNCHANGED <<header, agents, skill_count, skills, combat_log,
                   result, encounter, shrunk>>
    /\ UNCHANGED <<stream, name_in, name_out, original, other>>

ReadAgentCount ==
    /\ pc = "agent_count"
    /\ reads' = Append(reads, "agent_count")
    /\ IF ~CanRead(pos, U32) THEN FailTruncated
       ELSE LET count == DecodeU32LE(Slice(stream, pos, U32)) IN
            /\ pos' = pos + U32
            /\ agent_count' = count
            /\ agent_i' = 0
            /\ pc' = IF count = 0 THEN "skill_count" ELSE "agents"
            /\ UNCHANGED <<header, agents, skill_count, skills, combat_log,
                           result, encounter, shrunk>>
    /\ UNCHANGED <<stream, name_in, name_out, original, other>>

(* The body of read_agents' loop on one raw record: the agents list after  *)
(* it.  A record is pushed only if it is a player and try_into gives Ok.   *)
PushAgent(ags, raw) ==
    IF IsPlayer(raw)
    THEN LET r == TryFrom(raw) IN IF r.ok THEN Append(ags, r.agent) ELSE ags
    ELSE ags

(* One iteration of read_agents' `for _ in 0..count`. *)
ReadAgent ==
    /\ pc = "agents"
    /\ agent_i < agent_count
    /\ reads' = Append(reads, "agents")
    /\ IF ~CanRead(pos, AGENT_SIZE) THEN FailTruncated
       ELSE /\ pos' = pos + AGENT_SIZE
            /\ agents' = PushAgent(agents, Slice(stream, pos, AGENT_SIZE))
            /\ agent_i' = agent_i + 1
            /\ pc' = IF agent_i + 1 = agent_count THEN "skill_count" ELSE "agents"
            /\ UNCHANGED <<header, agent_count, skill_count, skills, combat_log,
                           result, encounter, shrunk>>
    /\ UNCHANGED <<stream, name_in, name_out, original, other>>

ReadSkillCount ==
    /\ pc = "skill_count"
    /\ reads' = Append(reads, "skill_count")
    /\ IF ~CanRead(pos, U32) THEN FailTruncated
       ELSE /\ pos' = pos + U32
            /\ skill_count' = DecodeU32LE(Slice(stream, pos, U32))
            /\ pc' = "skills"
            /\ UNCHANGED <<header, agent_count, agent_i, agents, skills,
                           combat_log, result, encounter, shrunk>>
    /\ UNCHANGED <<stream, name_in, name_out, original, other>>

(* read_skills: one read_exact of count * size_of::<EvtcSkill>() bytes. *)
ReadSkills ==
    /\ pc = "skills"
    /\ reads' = Append(reads, "skills")
    /\ LET n == skill_count * SKILL_SIZE IN
       IF ~CanRead(pos, n) THEN FailTruncated
       ELSE /\ pos' = pos + n
            /\ skills' = VecFromBytes(Slice(stream, pos, n), SKILL_SIZE)
            /\ pc' = "log"
            /\ UNCHANGED <<header, agent_count, agent_i, agents, skill_count,
                           combat_log, result, encounter, shrunk>>
    /\ UNCHANGED <<stream, name_in, name_out, original, other>>

(* A length check that accepts every tail. *)
LogOutcomeUnchecked(rest) == Ok

(* read_log: read_to_end, then the length check. *)
LogOutcome(rest) ==
    IF Len(rest) % EVENT_SIZE # 0 THEN Err("MalformedEventLog") ELSE Ok

ReadLog ==
    /\ pc = "log"
    /\ reads' = Append(reads, "log")
    /\ pos' = Len(stream)
    /\ LET rest == SubSeq(stream, pos + 1, Len(stream)) IN
       IF LogOutcome(rest) # Ok THEN Fail(LogOutcome(rest).kind)
       ELSE /\ combat_log' = VecFromBytes(rest, EVENT_SIZE)
            /\ pc' = "pov"
            /\ UNCHANGED <<header, agent_count, agent_i, agents, skill_count,
                           skills, result, encounter, shrunk>>
    /\ UNCHANGED <<stream, name_in, name_out, original, other>>

(* find_pov, then Ok(Encounter { .. }): the locals move into the result. *)
Assemble ==
    /\ pc = "pov"
    /\ encounter' = [present    |-> TRUE,
                     header     |-> header,
                     agents     |-> agents,
                     skills     |-> skills,
                     combat_log |-> combat_log,
                     pov        |-> find_pov(combat_log.items, agents)]
    /\ result' = Ok
    /\ pc' = "done"
    /\ header' = NoHeader
    /\ agents' = <<>>
    /\ skills' = EmptyVec
    /\ combat_log' = EmptyVec
    /\ UNCHANGED <<stream, pos, reads, agent_count, agent_i, skill_count,
                   shrunk, name_in, name_out, original, other>>

(* A shrink that discards the agents as well. *)
shrink_agents(e) == [e EXCEPT !.combat_log = VecClear(e.combat_log),
                              !.skills = VecClear(e.skills),
                              !.agents = <<>>]

(* A shrink that resolves pov again from the emptied combat log. *)
shrink_pov(e) == [e EXCEPT !.combat_log = VecClear(e.combat_log),
                           !.skills = VecClear(e.skills),
                           !.pov = find_pov(<<>>, e.agents)]

(* Encounter::shrink (evtc.rs 176-179). *)
shrink(e) == [e EXCEPT !.combat_log = VecClear(e.combat_log),
                       !.skills = VecClear(e.skills)]

Shrink ==
    /\ pc = "done"
    /\ encounter' = shrink(encounter)
    /\ shrunk' = [called |-> TRUE, before |-> encounter]
    /\ UNCHANGED <<stream, pos, pc, reads, header, agent_count, agent_i, agents,
                   skill_count, skills, combat_log, result, name_in, name_out, original, other>>

Next ==
    \/ ReadHeader
    \/ ReadAgentCount
    \/ ReadAgent
    \/ ReadSkillCount
    \/ ReadSkills
    \/ ReadLog
    \/ Assemble
    \/ Shrink

Spec == Init /\ [][Next]_vars

-----------------------------------------------------------------------------
(* Agent::try_from on its own: every name buffer that starts with NameLen  *)
(* bytes of NameAlphabet and is filled to NAME_BYTES with one byte.        *)

\* NUL, ':', 'a', and the two bytes of U+00E9 (each invalid without the other)
NameAlphabet == {0, COLON, 97, 195, 169}

NameFills == {0, 97}

NameBuffers ==
    { prefix \o Rep(fill, NAME_BYTES - NameLen) :
        prefix \in SeqsOfLen(NameAlphabet, NameLen), fill \in NameFills }
      \cup {NameFoo, NameAl}

NameInputs ==
    { RawAgent(Addr(1), 1, Dragonhunter, buf) : buf \in NameBuffers }
      \cup { RawAgent(Addr(1), 1, SENTINEL, buf) : buf \in {NameFoo, NameBadChar} }

NameInit ==
    /\ name_in \in NameInputs
    /\ name_out = NoOut
    /\ stream = <<>>
    /\ pos = 0
    /\ pc = "idle"
    /\ reads = <<>>
    /\ header = NoHeader
    /\ agent_count = 0
    /\ agent_i = 0
    /\ agents = <<>>
    /\ skill_count = 0
    /\ skills = EmptyVec
    /\ combat_log = EmptyVec
    /\ result = Pending
    /\ encounter = NoEncounter
    /\ shrunk = [called |-> FALSE]
    /\ original = NoOriginal
    /\ other = NoOther

ApplyTryFrom ==
    /\ name_in # NoName
    /\ name_out = NoOut
    /\ name_out' = TryFrom(name_in)
    /\ UNCHANGED <<decodeVars, name_in, original, other>>

NameNext == ApplyTryFrom

SpecName == NameInit /\ [][NameNext]_vars

-----------------------------------------------------------------------------
(* The name buffer's segments, by the positions of its zero bytes.         *)

NullsAfter(buf, k) == {j \in (k + 1)..Len(buf) : buf[j] = 0}

Min(S) == CHOOSE x \in S : \A y \in S : x <= y

(* The first zero byte after position k, or one past the end of the buffer. *)
NextNull(buf, k) ==
    IF NullsAfter(buf, k) = {} THEN Len(buf) + 1 ELSE Min(NullsAfter(buf, k))

Between(buf, lo, hi) == [j \in 1..(IF hi > lo THEN hi - lo - 1 ELSE 0) |-> buf[lo + j]]

Null1(buf) == NextNull(buf, 0)
Null2(buf) == NextNull(buf, Null1(buf))
Null3(buf) == NextNull(buf, Null2(buf))

Segment1(buf) == Between(buf, 0, Null1(buf))
Segment2(buf) == Between(buf, Null1(buf), Null2(buf))
Segment3(buf) == Between(buf, Null2(buf), Null3(buf))

LeadingColons(s) ==
    IF \A j \in 1..Len(s) : s[j] = COLON THEN Len(s)
    ELSE Min({j \in 1..Len(s) : s[j] # COLON}) - 1

Called == name_out # NoOut

NameBuf == RawName(name_in)

(* C7: for every name buffer of a player record, character_name is the     *)
(* bytes before the first null, account_name is the bytes between the      *)
(* first and the second null less the leading ':' separator, and subgroup  *)
(* is the bytes between the second null and the third null, or the end of  *)
(* the buffer when there is no third null; a record is converted exactly   *)
(* when these three segments are UTF-8; "Foo\0:Bar\0Party1\0" and zero     *)
(* padding gives ("Foo", "Bar", "Party1").                                 *)
C7_NameSegments ==
    (Called /\ IsPlayer(name_in)) =>
        /\ name_out.ok <=> /\ ValidUtf8(Segment1(NameBuf))
                           /\ ValidUtf8(Segment2(NameBuf))
                           /\ ValidUtf8(Segment3(NameBuf))
        /\ name_out.ok =>
             /\ name_out.agent.character_name = Segment1(NameBuf)
             /\ \E k \in 0..Len(Segment2(NameBuf)) :
                   /\ k <= LeadingColons(Segment2(NameBuf))
                   /\ Segment2(NameBuf) = Rep(COLON, k) \o name_out.agent.account_name
             /\ name_out.agent.subgroup = Segment3(NameBuf)
        /\ NameBuf = NameFoo =>
             /\ name_out.ok
             /\ name_out.agent.character_name = <<70, 111, 111>>
             /\ name_out.agent.account_name = <<66, 97, 114>>
             /\ name_out.agent.subgroup = <<80, 97, 114, 116, 121, 49>>

(* C7's case: a converted buffer with two nulls only, so that the subgroup *)
(* runs to the end of the buffer, and three non-empty segments.            *)
C7_Witness ==
    /\ Called
    /\ name_out.ok
    /\ Null2(NameBuf) <= NAME_BYTES
    /\ Null3(NameBuf) = NAME_BYTES + 1
    /\ name_out.agent.character_name # <<>>
    /\ name_out.agent.account_name # <<>>
    /\ Len(name_out.agent.subgroup) = NAME_BYTES - Null2(NameBuf)

(* C8: exactly one leading ':' is removed from the account segment: a      *)
(* segment that begins with k >= 1 colons decodes to an account_name that  *)
(* still begins with k - 1 colons, and a segment without a leading colon   *)
(* is kept as it is.                                                       *)
C8_OneColonRemoved ==
    (Called /\ name_out.ok) =>
        LET seg == Segment2(NameBuf) IN
        IF LeadingColons(seg) >= 1
        THEN name_out.agent.account_name = Tail(seg)
        ELSE name_out.agent.account_name = seg

(* What the code does instead: every leading ':' is removed. *)
C8_AllColonsRemoved ==
    (Called /\ name_out.ok) =>
        LET seg == Segment2(NameBuf) IN
        /\ seg = Rep(COLON, LeadingColons(seg)) \o name_out.agent.account_name
        /\ LeadingColons(name_out.agent.account_name) = 0

-----------------------------------------------------------------------------
(* What the stream holds, by offset, for the statements about the decode.  *)

FirstFour == Take(stream, 4)

HeaderDone == pc # "header"

TableStart == HEADER_SIZE + U32

(* The k-th raw agent record of the stream (k >= 1). *)
RecordAt(k) == Slice(stream, TableStart + (k - 1) * AGENT_SIZE, AGENT_SIZE)

TextOk(raw) ==
    /\ ValidUtf8(Segment1(RawName(raw)))
    /\ ValidUtf8(Segment2(RawName(raw)))
    /\ ValidUtf8(Segment3(RawName(raw)))

SentinelRecord(raw) == Slice(raw, AGENT_ELITE_OFF, U32) = <<255, 255, 255, 255>>

(* The agents decoded so far: the local list, or the returned Encounter's. *)
CurAgents == IF encounter.present THEN encounter.agents ELSE agents

Last(s) == s[Len(s)]

Failed == pc = "failed"

(* C1 as stated: whenever the first 4 bytes are not "EVTC", read_encounter *)
(* fails with BadMagic, whatever and however much follows them.            *)
C1_BadMagicWhateverFollows ==
    (HeaderDone /\ Len(stream) >= 4 /\ FirstFour # <<69, 86, 84, 67>>) =>
        (Failed /\ result = Err("BadMagic"))

(* C1, amended: when at least the 16 bytes of the header are there and the *)
(* first 4 are not "EVTC", read_encounter fails with BadMagic whatever     *)
(* follows; with fewer than 16 bytes it fails with TruncatedInput,         *)
(* whatever the first 4 bytes are.                                         *)
C1_BadMagicOfWholeHeader ==
    HeaderDone =>
        /\ (Len(stream) >= 16 /\ FirstFour # <<69, 86, 84, 67>>) =>
              (Failed /\ result = Err("BadMagic") /\ ~encounter.present)
        /\ Len(stream) < 16 =>
              (Failed /\ result = Err("TruncatedInput") /\ ~encounter.present)
        /\ result = Err("BadMagic") => FirstFour # <<69, 86, 84, 67>>

(* C1's case: a wrong magic that shares a prefix with "EVTC", followed by  *)
(* whole agent and event records, has been rejected.                       *)
C1_Witness ==
    /\ Failed
    /\ result = Err("BadMagic")
    /\ FirstFour = <<69, 86, 84, 88>>
    /\ Len(stream) > 16 + 4 + 96

(* The records read so far that are players with UTF-8 name segments (the  *)
(* addresses of), in stream order.                                         *)
RECURSIVE KeptAddrs(_)
KeptAddrs(n) ==
    IF n = 0 THEN <<>>
    ELSE LET raw == RecordAt(n)
         IN  IF ~SentinelRecord(raw) /\ TextOk(raw)
             THEN Append(KeptAddrs(n - 1), Slice(raw, 0, 8))
             ELSE KeptAddrs(n - 1)

AddrsOf(ags) == [k \in 1..Len(ags) |-> ags[k].addr]

(* The agent table has been read whole and the decode has not failed. *)
TableDone == pc \in {"skill_count", "skills", "log", "pov", "done"}

(* Record k was read, and it is a player whose name is not UTF-8. *)
BadTextRead(k) ==
    /\ k >= 1
    /\ k <= agent_i
    /\ ~SentinelRecord(RecordAt(k))
    /\ ~TextOk(RecordAt(k))

C6_SentinelExcluded ==
    /\ (pc = "agents" \/ TableDone) =>
          /\ Len(CurAgents) <= Cardinality({k \in 1..agent_i : ~SentinelRecord(RecordAt(k))})
          /\ \A j \in 1..Len(CurAgents) :
                \E k \in 1..agent_i :
                   /\ ~SentinelRecord(RecordAt(k))
                   /\ CurAgents[j].addr = Slice(RecordAt(k), 0, 8)
                   /\ CurAgents[j].prof = RecordAt(k)[9]
    /\ (Failed /\ Last(reads) = "agents") =>
          /\ result = Err("TruncatedInput")
          /\ Len(stream) < 16 + 4 + agent_count * 96
    /\ (Len(reads) >= 2 /\ ~Failed /\ agent_count = 0) =>
          (TableDone /\ CurAgents = <<>> /\ Len(SelectSeq(reads, LAMBDA r : r = "agents")) = 0)
    /\ (Len(reads) >= 2 /\ Len(stream) >= 16 + 4 + agent_count * 96
          /\ Len(SelectSeq(reads, LAMBDA r : r = "agents")) = agent_count) => TableDone \/ Failed

(* C6's case: a returned Encounter whose table held a sentinel record and  *)
(* a player: only the player is in the agents list.                        *)
C6_Witness ==
    /\ pc = "done"
    /\ agent_count = 2
    /\ SentinelRecord(RecordAt(1))
    /\ ~SentinelRecord(RecordAt(2))
    /\ Len(encounter.agents) = 1
    /\ encounter.agents[1].addr = Slice(RecordAt(2), 0, 8)

(* Where the event tail starts, by the two counts the decode has read. *)
TailStart == 16 + 4 + agent_count * 96 + 4 + skill_count * 68

TailLength == Len(stream) - TailStart

(* The k-th 64-byte record of the event tail. *)
TailEvent(k) == [j \in 1..64 |-> stream[TailStart + (k - 1) * 64 + j]]

LogDone == Len(reads) >= 1 /\ Last(reads) = "log"

CurLog == IF encounter.present THEN encounter.combat_log ELSE combat_log

(* C3: once header, agent table and skill table are decoded, a tail whose  *)
(* length is not a multiple of the 64-byte event record fails with         *)
(* MalformedEventLog; a tail whose length is a multiple gives a combat_log *)
(* of exactly length / 64 events, the tail's records in stream order.      *)
C3_EventTail ==
    LogDone =>
        IF TailLength % 64 # 0
        THEN Failed /\ result = Err("MalformedEventLog") /\ ~encounter.present
        ELSE /\ ~Failed
             /\ ~shrunk.called =>
                   /\ Len(CurLog.items) = TailLength \div 64
                   /\ \A k \in 1..(TailLength \div 64) : CurLog.items[k] = TailEvent(k)

(* C3's case: a tail of two different events, decoded in stream order. *)
C3_Witness ==
    /\ pc = "done"
    /\ ~shrunk.called
    /\ TailLength = 2 * 64
    /\ Len(encounter.combat_log.items) = 2
    /\ encounter.combat_log.items[1] # encounter.combat_log.items[2]
    /\ encounter.combat_log.items[1] = TailEvent(1)

(* C4 as stated: after shrink, skills and combat_log are empty and their   *)
(* storage is released: their capacity is zero.                            *)
C4_ShrinkReleasesStorage ==
    shrunk.called =>
        /\ encounter.skills.items = <<>>
        /\ encounter.combat_log.items = <<>>
        /\ encounter.skills.cap = 0
        /\ encounter.combat_log.cap = 0

(* What shrink does: both collections are empty, with the capacity they had. *)
C4_ShrinkEmpties ==
    shrunk.called =>
        /\ encounter.skills.items = <<>>
        /\ encounter.combat_log.items = <<>>
        /\ encounter.skills.cap = shrunk.before.skills.cap
        /\ encounter.combat_log.cap = shrunk.before.combat_log.cap

(* The events of an Encounter that name a point of view, by index. *)
PovEvents(evts) == {k \in 1..Len(evts) : evts[k][57] = 13}

Matching(ags, addr) == {j \in 1..Len(ags) : ags[j].addr = addr}

ExpectedPov(evts, ags) ==
    IF PovEvents(evts) = {} THEN [some |-> FALSE]
    ELSE LET first == evts[Min(PovEvents(evts))]
             src == [j \in 1..8 |-> first[8 + j]]
         IN  IF Matching(ags, src) = {} THEN [some |-> FALSE]
             ELSE [some |-> TRUE, val |-> ags[Min(Matching(ags, src))]]

(* C5: pov is decided by the first event, in stored order, whose           *)
(* is_statechange is the PointOfView code (13): it is the (first) decoded  *)
(* agent whose addr is that event's src_agent, and it is absent, the       *)
(* decode succeeding all the same, when there is no such event or when     *)
(* that first event's src_agent is no decoded agent's addr, whatever later *)
(* PointOfView events name.                                                *)
C5_PovFromFirstEvent ==
    (pc = "done" /\ ~shrunk.called) =>
        /\ result = Ok
        /\ encounter.pov = ExpectedPov(encounter.combat_log.items, encounter.agents)

(* C5's case: the first PointOfView event names no decoded agent, a later  *)
(* one does, and pov is absent.                                            *)
C5_Witness ==
    /\ pc = "done"
    /\ ~shrunk.called
    /\ Cardinality(PovEvents(encounter.combat_log.items)) = 2
    /\ \A j \in 1..Len(encounter.agents) :
          encounter.agents[j].addr # [i \in 1..8 |-> encounter.combat_log.items[1][8 + i]]
    /\ \E j \in 1..Len(encounter.agents) :
          encounter.agents[j].addr = [i \in 1..8 |-> encounter.combat_log.items[2][8 + i]]
    /\ ~encounter.pov.some
    /\ result = Ok

(* C9: shrink leaves header, agents and pov as they were before the call,  *)
(* also when pov was resolved from the combat_log that shrink discards.    *)
C9_ShrinkFrame ==
    shrunk.called =>
        /\ encounter.present
        /\ encounter.header = shrunk.before.header
        /\ encounter.agents = shrunk.before.agents
        /\ encounter.pov = shrunk.before.pov

(* C9's case: shrink has discarded a combat log from which a pov was       *)
(* resolved, and the pov is still there.                                   *)
C9_Witness ==
    /\ shrunk.called
    /\ shrunk.before.combat_log.items # <<>>
    /\ shrunk.before.pov.some
    /\ encounter.combat_log.items = <<>>
    /\ encounter.pov.some
    /\ encounter.agents # <<>>

(* The reads of a whole decode, in order, given the agent count. *)
StageOrder ==
    <<"header", "agent_count">> \o [k \in 1..agent_count |-> "agents"]
        \o <<"skill_count", "skills", "log">>

AgentReads == Len(SelectSeq(reads, LAMBDA r : r = "agents"))

(* The stage that read last is the first one the stream fails: every stage *)
(* before it had its bytes, and it lacks its own (or has a wrong magic, or *)
(* a tail that is no multiple of 64).                                      *)
FailedAtFirstBadStage ==
    LET st == Last(reads)
        n  == Len(stream)
    IN  /\ st = "header" =>
              \/ n < 16 /\ result = Err("TruncatedInput")
              \/ n >= 16 /\ FirstFour # <<69, 86, 84, 67>> /\ result = Err("BadMagic")
        /\ st # "header" => n >= 16 /\ FirstFour = <<69, 86, 84, 67>>
        /\ st = "agent_count" => n < 20 /\ result = Err("TruncatedInput")
        /\ st \notin {"header", "agent_count"} => n >= 20
        /\ st = "agents" =>
              /\ n < 20 + 96 * AgentReads
              /\ n >= 20 + 96 * (AgentReads - 1)
              /\ result = Err("TruncatedInput")
        /\ st \in {"skill_count", "skills", "log"} => n >= 20 + 96 * agent_count
        /\ st = "skill_count" =>
              n < 20 + 96 * agent_count + 4 /\ result = Err("TruncatedInput")
        /\ st \in {"skills", "log"} => n >= 20 + 96 * agent_count + 4
        /\ st = "skills" => n < TailStart /\ result = Err("TruncatedInput")
        /\ st = "log" =>
              n >= TailStart /\ TailLength % 64 # 0 /\ result = Err("MalformedEventLog")

(* C10: the stages read in the order header, agent count, agent table,     *)
(* skill count, skill table, event tail, and the point of view is resolved *)
(* after all of them; the first stage that fails ends the decode: no later *)
(* stage has read, the result is that stage's error, and an Encounter is   *)
(* there only when every stage has succeeded.                              *)
C10_OrderedFailFast ==
    /\ reads = Take(StageOrder, Len(reads))
    /\ pc \in {"pov", "done"} => reads = StageOrder
    /\ encounter.present <=> pc = "done"
    /\ result = Ok <=> pc = "done"
    /\ result = Pending <=> ~Failed /\ pc # "done"
    /\ Failed => /\ reads # <<>>
                 /\ FailedAtFirstBadStage
                 /\ encounter = [present |-> FALSE]

(* C10's case: the stream ends inside the second agent record; the decode  *)
(* stopped there with TruncatedInput and without an Encounter.             *)
C10_Witness ==
    /\ Failed
    /\ reads = <<"header", "agent_count", "agents", "agents">>
    /\ agent_count = 2
    /\ result = Err("TruncatedInput")
    /\ ~encounter.present

-----------------------------------------------------------------------------
(* The little-endian u32 at byte offset off of the stream. *)
CountAt(off) ==
    stream[off + 1] + 256 * stream[off + 2] + 65536 * stream[off + 3]
        + 16777216 * stream[off + 4]

(* The k-th 68-byte record of the skill table. *)
SkillAt(k) == [j \in 1..68 |-> stream[20 + 96 * agent_count + 4 + (k - 1) * 68 + j]]

TableStage == {"agent_count", "agents", "skill_count", "skills"}

(* C13: for the agent table and for the skill table the decoder reads one  *)
(* little-endian u32 count and then consumes exactly count * width bytes   *)
(* (96 per agent record, kept or filtered out; 68 per skill record), so    *)
(* that the next stage starts at the byte after the table; a stream that   *)
(* ends before a count or inside a table fails with TruncatedInput.        *)
C13_TablesConsumed ==
    /\ (Len(reads) >= 2 /\ ~(Failed /\ Last(reads) = "agent_count")) =>
          agent_count = CountAt(16)
    /\ pc = "agents" => pos = 20 + 96 * agent_i /\ agent_i < agent_count
    /\ pc = "skill_count" => pos = 20 + 96 * agent_count /\ agent_i = agent_count
    /\ pc = "skills" =>
          /\ pos = 20 + 96 * agent_count + 4
          /\ skill_count = CountAt(20 + 96 * agent_count)
    /\ pc = "log" =>
          /\ pos = 20 + 96 * agent_count + 4 + 68 * skill_count
          /\ Len(skills.items) = skill_count
          /\ \A k \in 1..skill_count : skills.items[k] = SkillAt(k)
    /\ (TableDone \/ pc = "agents") => Len(stream) >= 20 + 96 * agent_i
    /\ pc \in {"skills", "log", "pov", "done"} => Len(stream) >= 20 + 96 * agent_count + 4
    /\ pc \in {"log", "pov", "done"} =>
          Len(stream) >= 20 + 96 * agent_count + 4 + 68 * skill_count
    /\ (Failed /\ Last(reads) \in TableStage) =>
          /\ result = Err("TruncatedInput")
          /\ ~encounter.present

(* C13's case: a table of two records, both filtered out, and a skill      *)
(* table of one record have been consumed; the event tail starts right     *)
(* after them.                                                             *)
C13_Witness ==
    /\ pc = "log"
    /\ agent_count = 2
    /\ agents = <<>>
    /\ skill_count = 1
    /\ pos = 20 + 2 * 96 + 4 + 68
    /\ Len(skills.items) = 1

(* The name buffer of a raw agent record, by its offset in the record. *)
NameAt(raw, off) == [j \in 1..64 |-> raw[off + j]]

TextOkAt(raw, off) ==
    /\ ValidUtf8(Segment1(NameAt(raw, off)))
    /\ ValidUtf8(Segment2(NameAt(raw, off)))
    /\ ValidUtf8(Segment3(NameAt(raw, off)))

(* The character names of the records read so far that are kept, when the  *)
(* name buffer is at offset off of a record.                               *)
RECURSIVE KeptNames(_, _)
KeptNames(n, off) ==
    IF n = 0 THEN <<>>
    ELSE LET raw == RecordAt(n)
         IN  IF ~SentinelRecord(raw) /\ TextOkAt(raw, off)
             THEN Append(KeptNames(n - 1, off), Segment1(NameAt(raw, off)))
             ELSE KeptNames(n - 1, off)

CharacterNames(ags) == [k \in 1..Len(ags) |-> ags[k].character_name]

C16_PovIsAnAgent ==
    (encounter.present /\ encounter.pov.some) =>
        \E j \in 1..Len(encounter.agents) : encounter.agents[j] = encounter.pov.val

(* C16's case: two shrink calls after a decode that resolved a pov. *)
C16_Witness ==
    /\ shrunk.called
    /\ shrunk.before.combat_log.items = <<>>
    /\ shrunk.before.combat_log.cap > 0
    /\ encounter.pov.some
    /\ encounter.pov.val \in {encounter.agents[j] : j \in 1..Len(encounter.agents)}

-----------------------------------------------------------------------------
(* The eight version bytes of the stream's header. *)
VersionBytes == [j \in 1..8 |-> stream[4 + j]]

(* The longest prefix of bs that is valid UTF-8. *)
ValidPrefix(bs) ==
    LET n == CHOOSE m \in 0..Len(bs) :
                /\ ValidUtf8(Take(bs, m))
                /\ \A l \in (m + 1)..Len(bs) : ~ValidUtf8(Take(bs, l))
    IN  Take(bs, n)

IsPrefix(a, b) == Len(a) <= Len(b) /\ Take(b, Len(a)) = a

HeaderKept == pc \notin {"header", "failed"}

(* The decoded version, in read_encounter's local or in the Encounter. *)
DecodedVersion ==
    IF encounter.present THEN encounter.header.version ELSE header.version

(* C15: the decoded version is the lossy UTF-8 decoding of the 8 version   *)
(* bytes: the valid text in them is preserved (the text before the first   *)
(* invalid sequence begins the decoded version, the field is not dropped), *)
(* and a header with the correct magic never fails because of its version. *)
C15_ValidTextPreserved ==
    /\ HeaderKept => IsPrefix(ValidPrefix(VersionBytes), DecodedVersion)
    /\ (Len(reads) >= 1 /\ Len(stream) >= 16 /\ FirstFour = <<69, 86, 84, 67>>) =>
          ~(Failed /\ Last(reads) = "header")

(* What read_header does with the version: the eight bytes when they are   *)
(* valid UTF-8 as a whole, the empty string otherwise; never an error.     *)
C15_VersionAllOrNothing ==
    /\ HeaderKept =>
          DecodedVersion = (IF ValidUtf8(VersionBytes) THEN VersionBytes ELSE <<>>)
    /\ (Len(reads) >= 1 /\ Len(stream) >= 16 /\ FirstFour = <<69, 86, 84, 67>>) =>
          ~(Failed /\ Last(reads) = "header")

(* C15's case: a header whose version has six valid bytes before a stray   *)
(* 0xFF has been decoded.                                                  *)
C15_Witness ==
    /\ HeaderKept
    /\ encounter.present
    /\ Len(ValidPrefix(VersionBytes)) = 6
    /\ DecodedVersion = <<>>

-----------------------------------------------------------------------------
(* The wire-format encoder of the round trip: the inverse of the persisted *)
(* layout, with the record widths and offsets the decoder reads.  It       *)
(* writes the account name after one ':' and ends every name segment with  *)
(* a zero byte.                                                            *)

EncodeU16(n) == <<n % 256, (n \div 256) % 256>>

EncodeName(a) ==
    Pad(a.character_name \o <<0>> \o <<COLON>> \o a.account_name \o <<0>>
           \o a.subgroup \o <<0>>, NAME_BYTES)

EncodeAgent(a) ==
    RawAgent(a.addr, a.prof, EncodeU32LE(a.elite_spec), EncodeName(a))

EncodeHeader(h) ==
    EVTC_MAGIC \o h.version \o <<h.revision>> \o EncodeU16(h.boss_id) \o <<0>>

EncodeEncounter(x) ==
    EncodeHeader(x.header)
       \o EncodeU32LE(Len(x.agents))
       \o Concat([k \in 1..Len(x.agents) |-> EncodeAgent(x.agents[k])])
       \o EncodeU32LE(Len(x.skills)) \o Concat(x.skills)
       \o Concat(x.combat_log)

\* "Foo", "Bar", "Party1"
AgentFoo == [addr |-> Addr(1), prof |-> 1, elite_spec |-> 27,
             character_name |-> <<70, 111, 111>>,
             account_name |-> <<66, 97, 114>>,
             subgroup |-> <<80, 97, 114, 116, 121, 49>>]

\* "Al", ":Bo", "": an account name that itself begins with ':'
AgentAl == [addr |-> Addr(2), prof |-> 2, elite_spec |-> 0,
            character_name |-> <<65, 108>>,
            account_name |-> <<COLON, 66, 111>>,
            subgroup |-> <<>>]

\* U+00E9, "a", "1"
AgentEe == [addr |-> Addr(3), prof |-> 9, elite_spec |-> 5,
            character_name |-> <<195, 169>>,
            account_name |-> <<97>>,
            subgroup |-> <<49>>]

AgentValues == {AgentFoo, AgentAl, AgentEe}

(* The Encounter-shaped values the encoder can represent: player agents    *)
(* with valid UTF-8 names, whole skill and event records, an 8-byte        *)
(* version, and the pov that the events designate.                         *)
Originals ==
    { [present    |-> TRUE,
       header     |-> [version |-> VersionText, revision |-> 1, boss_id |-> 263],
       agents     |-> ags,
       skills     |-> [k \in 1..ns |-> RawSkill(k)],
       combat_log |-> evts,
       pov        |-> find_pov(evts, ags)] :
        ags \in SeqsUpTo(AgentValues, MaxAgents), ns \in 0..MaxSkills,
        evts \in SeqsUpTo(EventPool, MaxEvents) }

RoundInit ==
    /\ original \in Originals
    /\ stream = EncodeEncounter(original)
    /\ pos = 0
    /\ pc = "header"
    /\ reads = <<>>
    /\ header = NoHeader
    /\ agent_count = 0
    /\ agent_i = 0
    /\ agents = <<>>
    /\ skill_count = 0
    /\ skills = EmptyVec
    /\ combat_log = EmptyVec
    /\ result = Pending
    /\ encounter = NoEncounter
    /\ shrunk = [called |-> FALSE]
    /\ name_in = NoName
    /\ name_out = NoOut
    /\ other = NoOther

SpecRound == RoundInit /\ [][Next]_vars

(* The decoded Encounter has the five parts of the original. *)
SameAsOriginal ==
    /\ encounter.header = original.header
    /\ encounter.agents = original.agents
    /\ encounter.skills.items = original.skills
    /\ encounter.combat_log.items = original.combat_log
    /\ encounter.pov = original.pov

Decoded == pc = "done" /\ ~shrunk.called

NoLeadingColon(x) ==
    \A k \in 1..Len(x.agents) : LeadingColons(x.agents[k].account_name) = 0

(* C11: round trip.  For every Encounter-shaped value x the encoder can    *)
(* represent, decoding the encoding of x succeeds and yields header,       *)
(* agents, skills, combat_log and pov equal to those of x.                 *)
C11_RoundTrip ==
    /\ pc # "failed"
    /\ Decoded => result = Ok /\ SameAsOriginal

(* The round trip of the values none of whose account names begins with    *)
(* ':' : it holds.                                                         *)
C11_RoundTripWithoutLeadingColon ==
    /\ pc # "failed"
    /\ (Decoded /\ NoLeadingColon(original)) => result = Ok /\ SameAsOriginal

(* A round trip that has been made: two agents, a pov among them. *)
C11_Witness ==
    /\ Decoded
    /\ NoLeadingColon(original)
    /\ Len(original.agents) = 2
    /\ original.pov.some
    /\ Len(original.combat_log) = 2
    /\ SameAsOriginal

-----------------------------------------------------------------------------
(* Two read_encounter calls on two readers.  A call's state is its reader  *)
(* and the locals of its frame; the call that is not running is parked in  *)
(* `other`, and Switch hands the processor to it between any two steps.    *)

Frame ==
    [present     |-> TRUE,
     stream      |-> stream,
     pos         |-> pos,
     pc          |-> pc,
     reads       |-> reads,
     header      |-> header,
     agent_count |-> agent_count,
     agent_i     |-> agent_i,
     agents      |-> agents,
     skill_count |-> skill_count,
     skills      |-> skills,
     combat_log  |-> combat_log,
     result      |-> result,
     encounter   |-> encounter,
     shrunk      |-> shrunk]

FreshFrame(s) ==
    [present     |-> TRUE,
     stream      |-> s,
     pos         |-> 0,
     pc          |-> "header",
     reads       |-> <<>>,
     header      |-> NoHeader,
     agent_count |-> 0,
     agent_i     |-> 0,
     agents      |-> <<>>,
     skill_count |-> 0,
     skills      |-> EmptyVec,
     combat_log  |-> EmptyVec,
     result      |-> Pending,
     encounter   |-> NoEncounter,
     shrunk      |-> [called |-> FALSE]]

(* A switch between two calls that read through one shared cursor. *)
SwitchSharedCursor ==
    /\ other.present
    /\ stream' = other.stream
    /\ pos' = pos
    /\ pc' = other.pc
    /\ reads' = other.reads
    /\ header' = other.header
    /\ agent_count' = other.agent_count
    /\ agent_i' = other.agent_i
    /\ agents' = other.agents
    /\ skill_count' = other.skill_count
    /\ skills' = other.skills
    /\ combat_log' = other.combat_log
    /\ result' = other.result
    /\ encounter' = other.encounter
    /\ shrunk' = other.shrunk
    /\ other' = Frame
    /\ UNCHANGED <<name_in, name_out, original>>

Switch ==
    /\ other.present
    /\ stream' = other.stream
    /\ pos' = other.pos
    /\ pc' = other.pc
    /\ reads' = other.reads
    /\ header' = other.header
    /\ agent_count' = other.agent_count
    /\ agent_i' = other.agent_i
    /\ agents' = other.agents
    /\ skill_count' = other.skill_count
    /\ skills' = other.skills
    /\ combat_log' = other.combat_log
    /\ result' = other.result
    /\ encounter' = other.encounter
    /\ shrunk' = other.shrunk
    /\ other' = Frame
    /\ UNCHANGED <<name_in, name_out, original>>

(* The sources of the two calls: a log with two players and a pov, a log   *)
(* whose records are all filtered out, a log cut inside an agent record,   *)
(* a wrong magic, a tail that is no whole number of events, and a log      *)
(* with one player.                                                        *)
PairStreams ==
    { Encode(EVTC_MAGIC, <<RawAgent(Addr(1), 1, Dragonhunter, NameFoo),
                           RawAgent(Addr(2), 2, EncodeU32LE(0), NameAl)>>, 1,
             <<RawEvent(0, Addr(1)), RawEvent(PointOfView, Addr(2))>>),
      Encode(EVTC_MAGIC, <<RawAgent(Addr(2), 4, SENTINEL, NameFoo),
                           RawAgent(Addr(1), 5, Dragonhunter, NameBadChar)>>, 0, <<>>),
      Take(Encode(EVTC_MAGIC, <<RawAgent(Addr(1), 1, Dragonhunter, NameFoo)>>, 1, <<>>),
           HEADER_SIZE + U32 + AGENT_NAME_OFF),
      Encode(<<88, 88, 88, 88>>, <<>>, 0, <<>>),
      Encode(EVTC_MAGIC, <<>>, 1, <<RawEvent(PointOfView, Addr(1))>>) \o <<9>>,
      Encode(EVTC_MAGIC, <<RawAgent(Addr(1), 3, Dragonhunter, NameAl)>>, 0,
             <<RawEvent(PointOfView, Addr(1))>>) }

PairInit ==
    /\ stream \in PairStreams
    /\ other \in { FreshFrame(s) : s \in PairStreams \ {stream} }
    /\ pos = 0
    /\ pc = "header"
    /\ reads = <<>>
    /\ header = NoHeader
    /\ agent_count = 0
    /\ agent_i = 0
    /\ agents = <<>>
    /\ skill_count = 0
    /\ skills = EmptyVec
    /\ combat_log = EmptyVec
    /\ result = Pending
    /\ encounter = NoEncounter
    /\ shrunk = [called |-> FALSE]
    /\ name_in = NoName
    /\ name_out = NoOut
    /\ original = NoOriginal

PairNext ==
    \/ ReadHeader
    \/ ReadAgentCount
    \/ ReadAgent
    \/ ReadSkillCount
    \/ ReadSkills
    \/ ReadLog
    \/ Assemble
    \/ Shrink
    \/ Switch

SpecPair == PairInit /\ [][PairNext]_vars

(* What read_encounter returns for the bytes s when it runs from its first *)
(* step to its last with nothing in between: the stages in order, the      *)
(* first error returned at once.                                           *)
RECURSIVE AgentsOf(_, _)
AgentsOf(s, n) ==
    IF n = 0 THEN <<>>
    ELSE PushAgent(AgentsOf(s, n - 1),
                   Slice(s, HEADER_SIZE + U32 + (n - 1) * AGENT_SIZE, AGENT_SIZE))

Returned(res, enc) == [result |-> res, encounter |-> enc]

RunAlone(s) ==
    IF Len(s) < HEADER_SIZE THEN Returned(Err("TruncatedInput"), NoEncounter)
    ELSE IF ~MagicOk(Take(s, HEADER_SIZE)) THEN Returned(Err("BadMagic"), NoEncounter)
    ELSE IF Len(s) < HEADER_SIZE + U32 THEN Returned(Err("TruncatedInput"), NoEncounter)
    ELSE
      LET ac == DecodeU32LE(Slice(s, HEADER_SIZE, U32))
          s0 == HEADER_SIZE + U32 + ac * AGENT_SIZE
      IN
      IF Len(s) < s0 + U32 THEN Returned(Err("TruncatedInput"), NoEncounter)
      ELSE
        LET sc == DecodeU32LE(Slice(s, s0, U32))
            e0 == s0 + U32 + sc * SKILL_SIZE
        IN
        IF Len(s) < e0 THEN Returned(Err("TruncatedInput"), NoEncounter)
        ELSE
          LET rest == SubSeq(s, e0 + 1, Len(s)) IN
          IF LogOutcome(rest) # Ok THEN Returned(LogOutcome(rest), NoEncounter)
          ELSE Returned(Ok,
                 [present    |-> TRUE,
                  header     |-> ParseHeader(Take(s, HEADER_SIZE)),
                  agents     |-> AgentsOf(s, ac),
                  skills     |-> VecFromBytes(Slice(s, s0 + U32, sc * SKILL_SIZE), SKILL_SIZE),
                  combat_log |-> VecFromBytes(rest, EVENT_SIZE),
                  pov        |-> find_pov(Chunks(rest, EVENT_SIZE), AgentsOf(s, ac))])

Finished(f) == f.pc \in {"done", "failed"}

(* The call of frame f returned what its bytes alone determine; after      *)
(* shrink calls the caller holds that Encounter, shrunk.                   *)
SameAsAlone(f) ==
    /\ f.result = RunAlone(f.stream).result
    /\ f.encounter = IF f.shrunk.called
                     THEN shrink(RunAlone(f.stream).encounter)
                     ELSE RunAlone(f.stream).encounter

(* C12: two read_encounter calls that run interleaved on distinct byte     *)
(* sources share no state: under every interleaving of their steps, each   *)
(* call that has returned has the result and the Encounter that the same   *)
(* bytes give to a call run alone.                                         *)
C12_SameAsAlone ==
    /\ Finished(Frame) => SameAsAlone(Frame)
    /\ (other.present /\ Finished(other)) => SameAsAlone(other)

(* C12's case: one call has returned an Encounter with a pov while the     *)
(* other call, on other bytes, is parked between two of its stages.        *)
C12_Witness ==
    /\ other.present
    /\ other.stream # stream
    /\ other.pc = "log"
    /\ other.agent_count = 2
    /\ pc = "done"
    /\ result = Ok
    /\ encounter.pov.some
    /\ SameAsAlone(Frame)

====
